---- MODULE Spec2Model ----
(***************************************************************************)
(* AnimalRepel-System: the Diagnostic Runner (src/Load_Model.py) and the   *)
(* Dataset Collector (src/test.py), each a sequential script, modelled as  *)
(* two state machines over disjoint variables.                             *)
(*   SpecDiag  - one run of the Diagnostic Runner                          *)
(*   SpecColl  - the Dataset Collector                                     *)
(* Strings whose characters the code inspects or concatenates (class       *)
(* names, flags, folder and file names) are sequences of one-character     *)
(* strings; names the code only compares are TLA+ strings.                 *)
(***************************************************************************)
EXTENDS Integers, Sequences, FiniteSets, TLC

VARIABLES
    \* ---- Diagnostic Runner (src/Load_Model.py) ----
    pc,             \* the check the script is about to run, or "done"
    exit_status,    \* -1 while the script runs, then the process status
    disk,           \* the working directory: the model file and the side-car file
    files_found,    \* Load_Model.py:31
    missing_deps,   \* Load_Model.py:60
    model,          \* Load_Model.py:90-96: loaded?, num_classes
    class_indices,  \* Load_Model.py:112/117/124/126
    index_to_class, \* Load_Model.py:134
    gpio_pin,       \* "free" or "held": the BCM pin set up by GPIO.setup
    diag_camera,    \* "stopped" or "started": the Picamera2 of TEST 6
    started,        \* the checks whose header was printed, in order
    printed,        \* per check, the statuses print_status was called with
    \* ---- Dataset Collector (src/test.py) ----
    cpc,            \* "start", "menu" (AwaitingChoice), "warmup", "capturing",
                    \* "returned" (main returned), "raised" (an exception left
                    \* main), "crashed" (the script died at module level)
    coll_exit,      \* -1, or the status of the process once run as a script ended
    buzzer_class,   \* test.py:17, the FlagState slot
    camera,         \* "stopped" or "started": the module-level picam2
    dirs,           \* the directories that exist, as paths
    files,          \* the files that exist, as paths
    clock,          \* the timestamps datetime.now() has produced so far
    n_bursts,       \* capture bursts begun
    burst,          \* locals of capture_images / take_photos_continuous
    report,         \* what the last operation printed
    last,           \* the last menu choice, and how its operation ended:
                    \* "returned", "raised", or "interrupted" at a prompt
                    \* before it began
    last_flagged,   \* history: the last non-empty name given to Flag class
    log             \* history: per finished burst, what it wrote and where

dvars == <<pc, exit_status, disk, files_found, missing_deps, model,
           class_indices, index_to_class, gpio_pin, diag_camera, started,
           printed>>

cvars == <<cpc, coll_exit, buzzer_class, camera, dirs, files, clock, n_bursts,
           burst, report, last, last_flagged, log>>

vars == <<dvars, cvars>>

----------------------------------------------------------------------------
(* Bounds *)

\* the model's output dimensionality ranges over 1..MaxClasses
MaxClasses == 3

\* capture bursts begun in one run of the collector
MaxBursts == 1

\* images one burst captures before its duration has certainly expired
MaxCaptures == 2

----------------------------------------------------------------------------
(* Diagnostic Runner *)

MODEL_FILE == "object_identifier_model.h5"
JSON_FILE  == "class_indices.json"

\* Load_Model.py:26-29, in insertion order
files_to_check == <<MODEL_FILE, JSON_FILE>>

\* Load_Model.py:52-58, in insertion order
dependencies == <<"numpy", "cv2", "tensorflow", "picamera2", "RPi.GPIO">>

\* the section headers, in the order the script prints them
CheckOrder == <<"files", "dependencies", "model load", "label map", "buzzer",
                "camera", "inference", "summary">>

Checks == {CheckOrder[i] : i \in DOMAIN CheckOrder}

NoneValue == [is_none |-> TRUE, items |-> {}]
Dict(items) == [is_none |-> FALSE, items |-> items]

\* Load_Model.py:123-126: the default label map for num_classes classes
DefaultClassIndices(num_classes) ==
    IF num_classes = 2
    THEN Dict({<<"dang", 0>>, <<"ndan", 1>>})
    ELSE Dict({<<"class_" \o ToString(i), i>> : i \in 0 .. (num_classes - 1)})

\* Load_Model.py:134: {v: k for k, v in class_indices.items()}
Invert(d) == Dict({<<p[2], p[1]>> : p \in d.items})

Keys(d) == {p[1] : p \in d.items}

\* str.lower() on the answers the operator can type
Lower(s) == IF s = "Y" THEN "y" ELSE IF s = "N" THEN "n" ELSE s

Responses == {"y", "Y", "n", ""}

\* what the side-car file can hold before the run
JsonStates ==
    {[state |-> "absent", content |-> {}], [state |-> "malformed", content |-> {}]}
    \cup {[state |-> "valid", content |-> DefaultClassIndices(k).items] :
              k \in 1 .. MaxClasses}

InitDiag ==
    /\ pc = "files"
    /\ exit_status = -1
    /\ disk \in [model_h5 : BOOLEAN, json : JsonStates, test_capture : {FALSE}]
    /\ files_found = <<>>
    /\ missing_deps = <<>>
    /\ model = [loaded |-> FALSE, num_classes |-> 0]
    /\ class_indices = NoneValue
    /\ index_to_class = NoneValue
    /\ gpio_pin = "free"
    /\ diag_camera = "stopped"
    /\ started = <<>>
    /\ printed = [c \in Checks |-> {}]

FileExists(d, filename) ==
    IF filename = MODEL_FILE THEN d.model_h5 ELSE d.json.state # "absent"

\* Load_Model.py:32-40: the statuses printed by the file loop
FileStatuses(d) ==
    {IF FileExists(d, files_to_check[i]) THEN "pass"
     ELSE IF files_to_check[i] = MODEL_FILE THEN "fail" ELSE "warn" :
         i \in DOMAIN files_to_check}

\* FilesFatal as it would be if line 42 tested the other file
FilesFatalSlip(found) == ~found[JSON_FILE]

\* Load_Model.py:42: the file check is fatal when the model file is absent
FilesFatal(found) == ~found[MODEL_FILE]

\* sys.exit(1), or an exception no handler catches: the run ends, status 1
Terminate ==
    /\ pc' = "done"
    /\ exit_status' = 1

\* TEST 1, Load_Model.py:24-47
FilesCheck ==
    /\ UNCHANGED cvars
    /\ pc = "files"
    /\ started' = Append(started, "files")
    /\ files_found' = [f \in {MODEL_FILE, JSON_FILE} |-> FileExists(disk, f)]
    /\ IF FilesFatal(files_found')
       THEN /\ printed' = [printed EXCEPT !["files"] = FileStatuses(disk) \cup {"fail"}]
            /\ Terminate
       ELSE /\ printed' = [printed EXCEPT !["files"] = FileStatuses(disk)]
            /\ pc' = "dependencies"
            /\ UNCHANGED exit_status
    /\ UNCHANGED <<disk, missing_deps, model, class_indices, index_to_class,
                   gpio_pin, diag_camera>>

\* Load_Model.py:78: the dependency check is fatal when anything is missing
DepsFatal(missing) == missing # <<>>

\* TEST 2, Load_Model.py:50-82; unimportable is the set of modules whose
\* import raises ImportError
DepsCheck ==
    /\ UNCHANGED cvars
    /\ pc = "dependencies"
    /\ \E unimportable \in SUBSET {dependencies[i] : i \in DOMAIN dependencies} :
          /\ missing_deps' = SelectSeq(dependencies, LAMBDA m : m \in unimportable)
          /\ started' = Append(started, "dependencies")
          /\ IF DepsFatal(missing_deps')
             THEN /\ printed' = [printed EXCEPT !["dependencies"] =
                        {"fail"} \cup (IF Len(missing_deps') < Len(dependencies)
                                       THEN {"pass"} ELSE {})]
                  /\ Terminate
             ELSE /\ printed' = [printed EXCEPT !["dependencies"] = {"pass"}]
                  /\ pc' = "model load"
                  /\ UNCHANGED exit_status
    /\ UNCHANGED <<disk, files_found, model, class_indices, index_to_class,
                   gpio_pin, diag_camera>>

\* TEST 3, Load_Model.py:85-104; load_ok is whether load_model and the shape
\* reads return, n the last output dimension
LoadModel ==
    /\ UNCHANGED cvars
    /\ pc = "model load"
    /\ started' = Append(started, "model load")
    /\ \E load_ok \in BOOLEAN, n \in 1 .. MaxClasses :
          IF load_ok
          THEN /\ model' = [loaded |-> TRUE, num_classes |-> n]
               /\ printed' = [printed EXCEPT !["model load"] = {"pass"}]
               /\ pc' = "label map"
               /\ UNCHANGED exit_status
          ELSE /\ printed' = [printed EXCEPT !["model load"] = {"fail"}]
               /\ Terminate
               /\ UNCHANGED model
    /\ UNCHANGED <<disk, files_found, missing_deps, class_indices,
                   index_to_class, gpio_pin, diag_camera>>

\* TEST 4, Load_Model.py:107-134
LabelMapCheck ==
    /\ UNCHANGED cvars
    /\ pc = "label map"
    /\ started' = Append(started, "label map")
    /\ IF disk.json.state # "absent"
       THEN IF disk.json.state = "valid"
            THEN \* 111-114
                 /\ class_indices' = Dict(disk.json.content)
                 /\ printed' = [printed EXCEPT !["label map"] = {"pass"}]
                 /\ UNCHANGED disk
            ELSE \* 115-117
                 /\ class_indices' = NoneValue
                 /\ printed' = [printed EXCEPT !["label map"] = {"fail"}]
                 /\ UNCHANGED disk
       ELSE \* 119-132
            /\ class_indices' = DefaultClassIndices(model.num_classes)
            /\ disk' = [disk EXCEPT !.json =
                           [state |-> "valid", content |-> class_indices'.items]]
            /\ printed' = [printed EXCEPT !["label map"] = {"warn"}]
    /\ IF class_indices'.is_none
       THEN \* 134: None has no .items(); AttributeError, caught by nothing
            /\ Terminate
            /\ UNCHANGED index_to_class
       ELSE /\ index_to_class' = Invert(class_indices')
            /\ pc' = "buzzer"
            /\ UNCHANGED exit_status
    /\ UNCHANGED <<files_found, missing_deps, model, gpio_pin, diag_camera>>

\* the places of TEST 5 where an exception can be raised
BuzzerFaults == {"none", "setup", "prompt", "pulse", "confirm"}

\* TEST 5, Load_Model.py:137-168.  fault is the statement that raises:
\* "setup" GPIO.setmode/GPIO.setup (143-144), "prompt" the first input (148),
\* "pulse" GPIO.output or the sleep (151-153), "confirm" the second input (156)
BuzzerCheck ==
    /\ UNCHANGED cvars
    /\ pc = "buzzer"
    /\ started' = Append(started, "buzzer")
    /\ \E fault \in BuzzerFaults, response \in Responses, heard \in Responses :
          LET pulses == Lower(response) = "y"
              raised == \/ fault \in {"setup", "prompt"}
                        \/ pulses /\ fault \in {"pulse", "confirm"}
          IN  /\ fault \in {"pulse", "confirm"} => pulses
              /\ fault = "confirm" => heard = ""
              /\ fault \in {"setup", "prompt"} => response = "" /\ heard = ""
              /\ ~pulses => heard = ""
              /\ IF raised
                 THEN \* 166-168; GPIO.cleanup() at 164 was not reached
                      /\ gpio_pin' = IF fault = "setup" THEN "free" ELSE "held"
                      /\ printed' = [printed EXCEPT !["buzzer"] =
                             {"fail"} \cup (IF fault = "setup" THEN {} ELSE {"pass"})]
                 ELSE \* 164
                      /\ gpio_pin' = "free"
                      /\ printed' = [printed EXCEPT !["buzzer"] =
                             {"pass"} \cup (IF pulses /\ Lower(heard) # "y"
                                            THEN {"warn"} ELSE {})]
    /\ pc' = "camera"
    /\ UNCHANGED <<exit_status, disk, files_found, missing_deps, model,
                   class_indices, index_to_class, diag_camera>>

\* the places of TEST 6 where an exception can be raised
CameraFaults == {"none", "init", "capture", "write"}

\* TEST 6, Load_Model.py:171-199.  fault is the statement that raises:
\* "init" Picamera2()/configure/start (178-183), "capture" capture_array
\* (190), "write" cvtColor/imwrite (191)
CameraCheck ==
    /\ UNCHANGED cvars
    /\ pc = "camera"
    /\ started' = Append(started, "camera")
    /\ \E fault \in CameraFaults :
          /\ diag_camera' = IF fault \in {"capture", "write"}
                            THEN "started"     \* picam2.stop() at 194 not reached
                            ELSE "stopped"
          /\ disk' = [disk EXCEPT !.test_capture = (fault = "none")]
          /\ printed' = [printed EXCEPT !["camera"] =
                 CASE fault = "none" -> {"pass"}
                   [] fault = "init" -> {"fail"}
                   [] OTHER          -> {"pass", "fail"}]
    /\ pc' = "inference"
    /\ UNCHANGED <<exit_status, files_found, missing_deps, model,
                   class_indices, index_to_class, gpio_pin>>

\* TEST 7, Load_Model.py:202-235.  predict_ok is whether model.predict
\* returns, predicted_index the arg-max, slow whether it took over a second
InferenceCheck ==
    /\ UNCHANGED cvars
    /\ pc = "inference"
    /\ started' = Append(started, "inference")
    /\ \E predict_ok \in BOOLEAN, predicted_index \in 0 .. (model.num_classes - 1),
          slow \in BOOLEAN :
          /\ ~predict_ok => predicted_index = 0 /\ ~slow
          /\ printed' = [printed EXCEPT !["inference"] =
                 IF predict_ok /\ predicted_index \in Keys(index_to_class)
                 THEN {"pass"} \cup (IF slow THEN {"warn"} ELSE {})
                 ELSE {"fail"}]   \* 234-235; a KeyError at 220 is caught too
    /\ pc' = "summary"
    /\ UNCHANGED <<exit_status, disk, files_found, missing_deps, model,
                   class_indices, index_to_class, gpio_pin, diag_camera>>

\* SUMMARY, Load_Model.py:238-251, then the script ends: status 0
Summary ==
    /\ UNCHANGED cvars
    /\ pc = "summary"
    /\ started' = Append(started, "summary")
    /\ printed' = [printed EXCEPT !["summary"] = {"pass"}]
    /\ pc' = "done"
    /\ exit_status' = 0
    /\ UNCHANGED <<disk, files_found, missing_deps, model, class_indices,
                   index_to_class, gpio_pin, diag_camera>>

NextDiag ==
    \/ FilesCheck
    \/ DepsCheck
    \/ LoadModel
    \/ LabelMapCheck
    \/ BuzzerCheck
    \/ CameraCheck
    \/ InferenceCheck
    \/ Summary


----------------------------------------------------------------------------
(* Dataset Collector: strings and paths *)

\* Python's None in the buzzer_class slot.  Class names are sequences of
\* one-character strings, so no class name equals this value.
None == <<"None">>

DANG == <<"d", "a", "n", "g">>
NDAN == <<"n", "d", "a", "n">>

\* test.py:16
DATA_DIR == <<".", "/", "training_data">>

\* what the operator can type at a class-name prompt
ClassInputs ==
    { <<>>, <<" ">>, <<"w">>, <<" ", "w", " ">>,
      <<"x", "_", "d", "a", "n", "g">>, <<"a", "/", "b">>,
      <<".", ".", "/", "x">> }

\* what the operator can type at the menu prompt
ChoiceInputs ==
    { <<"1">>, <<"2">>, <<"3">>, <<"4">>, <<"5">>, <<"6">>, <<" ", "6", " ">>,
      <<"7">>, <<>> }

RECURSIVE LStrip(_)
LStrip(s) == IF s # <<>> /\ s[1] = " " THEN LStrip(Tail(s)) ELSE s

RECURSIVE RStrip(_)
RStrip(s) ==
    IF s # <<>> /\ s[Len(s)] = " " THEN RStrip(SubSeq(s, 1, Len(s) - 1)) ELSE s

\* str.strip()
Strip(s) == RStrip(LStrip(s))

\* sub in s
Contains(s, sub) ==
    \E i \in 1 .. (Len(s) - Len(sub) + 1) : SubSeq(s, i, i + Len(sub) - 1) = sub

\* os.path.join(a, b), a not ending in a separator
Join(a, b) == IF b # <<>> /\ b[1] = "/" THEN b ELSE a \o <<"/">> \o b

\* the positions of the path separators of p
Seps(p) == {i \in DOMAIN p : p[i] = "/"}

LastSep(p) == CHOOSE i \in Seps(p) : \A j \in Seps(p) : j <= i

\* os.path.basename(p)
Basename(p) == IF Seps(p) = {} THEN p ELSE SubSeq(p, LastSep(p) + 1, Len(p))

\* p split at its separators: the sequence of its components
RECURSIVE Split(_)
Split(p) ==
    IF Seps(p) = {} THEN <<p>>
    ELSE Append(Split(SubSeq(p, 1, LastSep(p) - 1)), Basename(p))

DOT    == <<".">>
DOTDOT == <<".", ".">>

\* the file system's resolution of the components cs of a relative path,
\* from the working directory: "." and "" stay, ".." goes up
RECURSIVE Walk(_, _)
Walk(at, cs) ==
    IF cs = <<>> THEN at
    ELSE LET c == Head(cs)
         IN  IF c = DOT \/ c = <<>> THEN Walk(at, Tail(cs))
             ELSE IF c = DOTDOT /\ at # <<>> /\ at[Len(at)] # DOTDOT
                  THEN Walk(SubSeq(at, 1, Len(at) - 1), Tail(cs))
                  ELSE Walk(Append(at, c), Tail(cs))

\* the place a relative path names: its components below the working
\* directory; <<>> is the working directory itself
Resolve(p) == Walk(<<>>, Split(p))

\* the directory that holds the place q, and q's name in it
Parent(q) == SubSeq(q, 1, Len(q) - 1)
Name(q)   == q[Len(q)]

\* os.makedirs(p): the place p names and every ancestor of it
MakeDirs(p) == {SubSeq(Resolve(p), 1, i) : i \in 1 .. Len(Resolve(p))}

\* test.py:60-61: f"capture_{timestamp}.jpg"
CaptureName(timestamp) == <<"capture_", ToString(timestamp), ".jpg">>

\* str.endswith('.jpg') on a file or folder name
EndsWithJpg(name) == name # <<>> /\ name[Len(name)] = ".jpg"

----------------------------------------------------------------------------
(* Dataset Collector: the operations' pure parts *)

\* FlagFor as it would be if line 92 flagged every class once any is flagged
FlagForSlip(flagged, cls_name) == IF flagged # None THEN DANG ELSE NDAN

\* test.py:92
FlagFor(flagged, cls_name) == IF flagged = cls_name THEN DANG ELSE NDAN

\* test.py:95
ClassDir(cls_name, flag) == Join(DATA_DIR, cls_name \o <<"_">> \o flag)

\* Dest as it would be if line 105 left the flag out of the file name
DestSlip(class_dir, cls_name, flag, fname) ==
    Join(class_dir, cls_name \o Basename(fname))

\* test.py:105
Dest(class_dir, cls_name, flag, fname) ==
    Join(class_dir, cls_name \o flag \o Basename(fname))

\* test.py:104-106: the move loop over filenames[i..]; shutil.move raises
\* when the directory that is to hold dest does not exist, and the loop
\* ends there
RECURSIVE MoveAll(_, _, _, _)
MoveAll(fs, ds, b, i) ==
    IF i > Len(b.filenames)
    THEN [files |-> fs, ok |-> TRUE]
    ELSE LET dest == Dest(b.class_dir, b.cls_name, b.flag, b.filenames[i])
         IN  IF Parent(Resolve(dest)) \in ds
             THEN MoveAll((fs \ {Resolve(b.filenames[i])}) \cup {Resolve(dest)},
                          ds, b, i + 1)
             ELSE [files |-> fs, ok |-> FALSE]

\* flag_class as it would be without the check of line 120
flag_classSlip(flagged, cls_name) == cls_name

\* test.py:120-124
flag_class(flagged, cls_name) == IF cls_name = <<>> THEN flagged ELSE cls_name

\* test.py:159: the sub-directories of DATA_DIR
Folders(ds) ==
    {Name(d) : d \in {e \in ds : e # <<>> /\ Parent(e) = Resolve(DATA_DIR)}}

\* test.py:168: the .jpg entries of a folder
ImageCount(fs, ds, folder) ==
    Cardinality({e \in fs \cup ds :
                    /\ e # <<>>
                    /\ Parent(e) = Resolve(Join(DATA_DIR, folder))
                    /\ EndsWithJpg(Name(e))})

\* test.py:171
Marker(folder) == IF Contains(folder, <<"_">> \o DANG) THEN "dangerous" ELSE "safe"

\* test.py:165-169: total_images accumulated over the folders
RECURSIVE TotalImages(_, _, _)
TotalImages(fs, ds, folders) ==
    IF folders = {} THEN 0
    ELSE LET f == CHOOSE g \in folders : TRUE
         IN  ImageCount(fs, ds, f) + TotalImages(fs, ds, folders \ {f})

\* test.py:149-176: what list_captured_data prints
Census(fs, ds) ==
    [rows  |-> {[folder |-> f, count |-> ImageCount(fs, ds, f), marker |-> Marker(f)] :
                   f \in Folders(ds)},
     total |-> TotalImages(fs, ds, Folders(ds))]

NoReport == [op |-> "none", arg |-> <<>>, rows |-> {}, total |-> 0]
Report(op, arg) == [op |-> op, arg |-> arg, rows |-> {}, total |-> 0]

NoBurst ==
    [cls_name |-> <<>>, flag |-> <<>>, class_dir |-> <<>>, filenames |-> <<>>,
     flagged |-> None, camera_started |-> FALSE, stop_calls |-> 0,
     outcome |-> "none"]

InitColl ==
    /\ cpc = "start"
    /\ coll_exit = -1
    /\ buzzer_class = None
    /\ camera = "stopped"
    /\ dirs = {<<>>}
    /\ files = {}
    /\ clock = 0
    /\ n_bursts = 0
    /\ burst = NoBurst
    /\ report = NoReport
    /\ last = [choice |-> None, outcome |-> "none"]
    /\ last_flagged = None
    /\ log = {}

----------------------------------------------------------------------------
(* Dataset Collector: running the file, and main()'s loop *)

\* test.py:20-22 and 222.  Run as a script the module level constructs and
\* configures picam2 (never started), defines the functions, and evaluates
\* the guard: _name_ is not defined, the NameError is raised outside the try
\* of 223-234, and the interpreter ends with status 1.
RunScript ==
    /\ UNCHANGED dvars
    /\ cpc = "start"
    /\ cpc' = "crashed"
    /\ coll_exit' = 1
    /\ UNCHANGED <<buzzer_class, camera, dirs, files, clock, n_bursts, burst,
                   report, last, last_flagged, log>>

\* test.py:24-28
ensure_data_dir(ds) ==
    IF Resolve(DATA_DIR) \in ds THEN ds ELSE ds \cup MakeDirs(DATA_DIR)

\* test.py:178-187: main() called by a holder of the module's definitions
\* (the guard of 222 never calls it); it reaches the first prompt
CallMain ==
    /\ UNCHANGED dvars
    /\ cpc = "start"
    /\ dirs' = ensure_data_dir(dirs)
    /\ cpc' = "menu"
    /\ UNCHANGED <<coll_exit, buzzer_class, camera, files, clock, n_bursts,
                   burst, report, last, last_flagged, log>>

\* an exception leaves the operation: main() has no handler, so it leaves
\* the loop and main() as well (test.py:187-220)
Propagate == cpc' = "raised"

\* the prompts of main(): the menu (190) and the class names (193, 200)
Prompts == {None, <<"1">>, <<"2">>}

\* input() raises (EOF, Ctrl-C) at the menu prompt, or at the class-name
\* prompt of choice 1 or 2
PromptInterrupt ==
    /\ UNCHANGED dvars
    /\ cpc = "menu"
    /\ Propagate
    /\ \E at \in Prompts : last' = [choice |-> at, outcome |-> "interrupted"]
    /\ report' = NoReport
    /\ UNCHANGED <<coll_exit, buzzer_class, camera, dirs, files, clock,
                   n_bursts, burst, last_flagged, log>>

\* the ways the start of a burst can go: the camera starts; Ctrl-C during
\* the sleep of test.py:45; picam2.start() raises at test.py:48
BeginOutcomes == {"started", "interrupted", "camera_error"}

\* choice 1: test.py:192-197, capture_images 87-98, and
\* take_photos_continuous 43-48
BeginCapture ==
    /\ UNCHANGED dvars
    /\ cpc = "menu"
    /\ n_bursts < MaxBursts
    /\ \E raw_choice \in ChoiceInputs, raw \in ClassInputs, outcome \in BeginOutcomes :
          LET cls_name  == Strip(raw)
              flag      == FlagFor(buzzer_class, cls_name)
              class_dir == ClassDir(cls_name, flag)
          IN  /\ Strip(raw_choice) = <<"1">>
              /\ IF cls_name = <<>>
                 THEN \* 196-197
                      /\ outcome = "started"
                      /\ report' = Report("invalid class name", <<>>)
                      /\ last' = [choice |-> <<"1">>, outcome |-> "returned"]
                      /\ UNCHANGED <<cpc, camera, dirs, n_bursts, burst>>
                 ELSE /\ dirs' = IF class_dir \in dirs THEN dirs
                                 ELSE dirs \cup MakeDirs(class_dir)
                      /\ n_bursts' = n_bursts + 1
                      /\ report' = Report("capturing", cls_name)
                      /\ burst' = [cls_name |-> cls_name, flag |-> flag,
                                   class_dir |-> class_dir, filenames |-> <<>>,
                                   flagged |-> buzzer_class,
                                   camera_started |-> (outcome = "started"),
                                   stop_calls |-> 0,
                                   outcome |-> IF outcome = "started"
                                               THEN "running" ELSE "raised"]
                      /\ IF outcome = "started"
                         THEN /\ camera' = "started"
                              /\ cpc' = "warmup"
                              /\ last' = [choice |-> <<"1">>, outcome |-> "running"]
                         ELSE /\ Propagate
                              /\ last' = [choice |-> <<"1">>, outcome |-> "raised"]
                              /\ UNCHANGED camera
    /\ UNCHANGED <<coll_exit, buzzer_class, files, clock, last_flagged, log>>

\* test.py:49-55: the warm-up sleep, outside the try of 57; Ctrl-C raises
\* KeyboardInterrupt there
WarmUp ==
    /\ UNCHANGED dvars
    /\ cpc = "warmup"
    /\ \E interrupted \in BOOLEAN :
          IF interrupted
          THEN /\ Propagate
               /\ burst' = [burst EXCEPT !.outcome = "raised"]
               /\ last' = [last EXCEPT !.outcome = "raised"]
          ELSE /\ cpc' = "capturing"
               /\ UNCHANGED <<burst, last>>
    /\ UNCHANGED <<coll_exit, buzzer_class, camera, dirs, files, clock,
                   n_bursts, report, last_flagged, log>>

\* the ways one pass of the loop can go: the image is written and the sleep
\* returns; capture_file raises (64); Ctrl-C during the sleep of 71
CaptureOutcomes == {"ok", "capture_error", "interrupted"}

\* test.py:73-76: the finally clause stops the camera
StopInFinally(b) == [b EXCEPT !.stop_calls = b.stop_calls + 1]

\* test.py:58-71, one pass of the loop, with 73-76 when the pass raises
CaptureOne ==
    /\ UNCHANGED dvars
    /\ cpc = "capturing"
    /\ Len(burst.filenames) < MaxCaptures
    /\ \E outcome \in CaptureOutcomes :
          LET filename == CaptureName(clock + 1)
              written  == [burst EXCEPT !.filenames = Append(burst.filenames, filename)]
          IN  /\ clock' = clock + 1
              /\ files' = IF outcome = "capture_error" THEN files
                          ELSE files \cup {Resolve(filename)}
              /\ IF outcome = "ok"
                 THEN /\ burst' = written
                      /\ UNCHANGED <<cpc, camera, last>>
                 ELSE /\ burst' = [StopInFinally(IF outcome = "interrupted"
                                                 THEN written ELSE burst)
                                       EXCEPT !.outcome = "raised"]
                      /\ camera' = IF burst'.stop_calls > burst.stop_calls
                                   THEN "stopped" ELSE camera
                      /\ Propagate
                      /\ last' = [last EXCEPT !.outcome = "raised"]
    /\ UNCHANGED <<coll_exit, buzzer_class, dirs, n_bursts, report,
                   last_flagged, log>>

\* test.py:58 false (the duration is over), 73-78, then capture_images
\* 104-109: the files are moved and the count is printed
FinishBurst ==
    /\ UNCHANGED dvars
    /\ cpc = "capturing"
    /\ Len(burst.filenames) >= 1
    /\ LET stopped == StopInFinally(burst)
           moved   == MoveAll(files, dirs, stopped, 1)
       IN  /\ camera' = IF stopped.stop_calls > burst.stop_calls
                        THEN "stopped" ELSE camera
           /\ files' = moved.files
           /\ IF moved.ok
              THEN /\ burst' = [stopped EXCEPT !.outcome = "returned"]
                   /\ report' = [op |-> "saved", arg |-> stopped.class_dir,
                                 rows |-> {}, total |-> Len(stopped.filenames)]
                   /\ log' = log \cup
                          {[cls |-> stopped.cls_name, flagged |-> stopped.flagged,
                            written |-> moved.files \ files]}
                   /\ cpc' = "menu"
                   /\ last' = [last EXCEPT !.outcome = "returned"]
              ELSE /\ burst' = [stopped EXCEPT !.outcome = "raised"]
                   /\ Propagate
                   /\ last' = [last EXCEPT !.outcome = "raised"]
                   /\ UNCHANGED <<report, log>>
    /\ UNCHANGED <<coll_exit, buzzer_class, dirs, clock, n_bursts, last_flagged>>

\* choice 2: test.py:199-201 and flag_class
FlagClass ==
    /\ UNCHANGED dvars
    /\ cpc = "menu"
    /\ \E raw_choice \in ChoiceInputs, raw \in ClassInputs :
          /\ Strip(raw_choice) = <<"2">>
          /\ buzzer_class' = flag_class(buzzer_class, Strip(raw))
          /\ report' = Report(IF Strip(raw) = <<>> THEN "invalid class name"
                              ELSE "flagged", Strip(raw))
          /\ last_flagged' = IF Strip(raw) # <<>> THEN Strip(raw) ELSE last_flagged
    /\ last' = [choice |-> <<"2">>, outcome |-> "returned"]
    /\ UNCHANGED <<cpc, coll_exit, camera, dirs, files, clock, n_bursts, burst, log>>

\* choice 3: test.py:203-207
InspectFlag ==
    /\ UNCHANGED dvars
    /\ cpc = "menu"
    /\ \E raw_choice \in ChoiceInputs : Strip(raw_choice) = <<"3">>
    /\ report' = IF buzzer_class # None /\ buzzer_class # <<>>
                 THEN Report("current buzzer class", buzzer_class)
                 ELSE Report("no class flagged", <<>>)
    /\ last' = [choice |-> <<"3">>, outcome |-> "returned"]
    /\ UNCHANGED <<cpc, coll_exit, buzzer_class, camera, dirs, files, clock,
                   n_bursts, burst, last_flagged, log>>

\* choice 4: test.py:209-210 and list_captured_data
ListCapturedData ==
    /\ UNCHANGED dvars
    /\ cpc = "menu"
    /\ \E raw_choice \in ChoiceInputs : Strip(raw_choice) = <<"4">>
    /\ report' = IF Resolve(DATA_DIR) \notin dirs \/ Folders(dirs) = {}
                 THEN Report("no data", <<>>)
                 ELSE [op |-> "census", arg |-> <<>>,
                       rows |-> Census(files, dirs).rows,
                       total |-> Census(files, dirs).total]
    /\ last' = [choice |-> <<"4">>, outcome |-> "returned"]
    /\ UNCHANGED <<cpc, coll_exit, buzzer_class, camera, dirs, files, clock,
                   n_bursts, burst, last_flagged, log>>

\* the ways the preview can go: start, sleep, stop; picam2.start() raises
\* (144); Ctrl-C during the sleep of 145
PreviewOutcomes == {"ok", "camera_error", "interrupted"}

\* choice 5: test.py:212-213 and preview_camera 141-147
PreviewCamera ==
    /\ UNCHANGED dvars
    /\ cpc = "menu"
    /\ \E raw_choice \in ChoiceInputs, outcome \in PreviewOutcomes :
          /\ Strip(raw_choice) = <<"5">>
          /\ report' = Report("preview", <<>>)
          /\ IF outcome = "ok"
             THEN /\ last' = [choice |-> <<"5">>, outcome |-> "returned"]
                  /\ UNCHANGED <<cpc, camera>>
             ELSE /\ last' = [choice |-> <<"5">>, outcome |-> "raised"]
                  /\ camera' = IF outcome = "interrupted" THEN "started" ELSE camera
                  /\ Propagate
    /\ UNCHANGED <<coll_exit, buzzer_class, dirs, files, clock, n_bursts,
                   burst, last_flagged, log>>

\* choice 6: test.py:215-217, break, and main() returns
ExitChoice ==
    /\ UNCHANGED dvars
    /\ cpc = "menu"
    /\ \E raw_choice \in ChoiceInputs : Strip(raw_choice) = <<"6">>
    /\ cpc' = "returned"
    /\ report' = Report("goodbye", <<>>)
    /\ last' = [choice |-> <<"6">>, outcome |-> "returned"]
    /\ UNCHANGED <<coll_exit, buzzer_class, camera, dirs, files, clock,
                   n_bursts, burst, last_flagged, log>>

\* InvalidChoice as it would be if the else branch left the loop
InvalidChoiceBreaks ==
    /\ UNCHANGED dvars
    /\ cpc = "menu"
    /\ \E raw_choice \in ChoiceInputs :
          /\ Strip(raw_choice) \notin {<<"1">>, <<"2">>, <<"3">>, <<"4">>, <<"5">>, <<"6">>}
          /\ last' = [choice |-> Strip(raw_choice), outcome |-> "returned"]
    /\ report' = Report("invalid choice", <<>>)
    /\ cpc' = "returned"
    /\ UNCHANGED <<coll_exit, buzzer_class, camera, dirs, files, clock,
                   n_bursts, burst, last_flagged, log>>

\* test.py:219-220: any other input
InvalidChoice ==
    /\ UNCHANGED dvars
    /\ cpc = "menu"
    /\ \E raw_choice \in ChoiceInputs :
          /\ Strip(raw_choice) \notin {<<"1">>, <<"2">>, <<"3">>, <<"4">>, <<"5">>, <<"6">>}
          /\ last' = [choice |-> Strip(raw_choice), outcome |-> "returned"]
    /\ report' = Report("invalid choice", <<>>)
    /\ UNCHANGED <<cpc, coll_exit, buzzer_class, camera, dirs, files, clock,
                   n_bursts, burst, last_flagged, log>>

NextColl ==
    \/ RunScript
    \/ CallMain
    \/ PromptInterrupt
    \/ BeginCapture
    \/ WarmUp
    \/ CaptureOne
    \/ FinishBurst
    \/ FlagClass
    \/ InspectFlag
    \/ ListCapturedData
    \/ PreviewCamera
    \/ ExitChoice
    \/ InvalidChoice

----------------------------------------------------------------------------
(* Specifications *)

\* a run of the Diagnostic Runner; the collector is not running
InitRunner == InitDiag /\ InitColl

SpecDiag == InitRunner /\ [][NextDiag]_vars

\* the Dataset Collector; the runner is not running, in a directory that
\* holds the model file and no side-car file
InitCollector ==
    /\ InitDiag
    /\ disk.model_h5
    /\ disk.json.state = "absent"
    /\ InitColl

SpecColl == InitCollector /\ [][NextColl]_vars

----------------------------------------------------------------------------
(* Claims about the Diagnostic Runner, checked under SpecDiag *)

Critical == {"files", "dependencies", "model load"}

\* the critical check c has run and failed: the model file is absent, a
\* dependency could not be imported, or loading the model raised
CriticalFailed(c) ==
    CASE c = "files"        -> started # <<>> /\ ~disk.model_h5
      [] c = "dependencies" -> missing_deps # <<>>
      [] c = "model load"   -> "fail" \in printed["model load"]

\* C1: the checks run in the fixed order files, dependencies, model load,
\* label map, buzzer, camera, inference, summary, and when a critical check
\* fails the run has ended with status 1 at that check: it is the last check
\* that was started, so no later check and no summary ran.
C1_FixedOrderCriticalStops ==
    /\ Len(started) <= Len(CheckOrder)
    /\ \A i \in DOMAIN started : started[i] = CheckOrder[i]
    /\ \A c \in Critical :
          CriticalFailed(c) =>
              /\ pc = "done"
              /\ exit_status = 1
              /\ started[Len(started)] = c

\* C1 witness: the model load failed after the two checks before it passed
C1_Witness ==
    /\ CriticalFailed("model load")
    /\ started = <<"files", "dependencies", "model load">>
    /\ exit_status = 1

\* C2: a finished run has a non-zero status only when a critical check
\* failed; when the three critical checks pass, every later check ran, the
\* summary was reached and the status is 0.
C2_NonZeroOnlyOnCriticalFailure ==
    pc = "done" =>
        IF \E c \in Critical : CriticalFailed(c)
        THEN exit_status = 1
        ELSE exit_status = 0 /\ started = CheckOrder

\* C6: when the next check begins, the check before it has released what it
\* acquired: the GPIO pin is free when the camera check begins and the
\* camera is stopped when the inference check begins.
C6_ResourcesReleasedBetweenChecks ==
    /\ pc = "camera" => gpio_pin = "free"
    /\ pc = "inference" => diag_camera = "stopped"

----------------------------------------------------------------------------
(* Claims about the Dataset Collector, checked under SpecColl *)

HasSeparator(cls_name) == \E i \in DOMAIN cls_name : cls_name[i] = "/"

\* the directory named C_F directly inside the data directory
ClassFolder(C, F) == <<<<"training_data">>, C \o <<"_">> \o F>>

\* the flag of a burst for class C invoked while `flagged` was in FlagState
FlagAtInvocation(C, flagged) == IF C = flagged THEN DANG ELSE NDAN

\* every image the burst b wrote is still where b put it, in the folder
\* C_dang when C was the flagged class when b was invoked, else in C_ndan
InClassFolder(b) ==
    \A f \in b.written :
        /\ f \in files
        /\ Parent(f) \in dirs
        /\ Parent(f) = ClassFolder(b.cls, FlagAtInvocation(b.cls, b.flagged))

C4_FlagStateIsLastFlagged == buzzer_class = last_flagged

\* C4 witness: a Flag class call with empty input was just rejected while a
\* class was flagged
C4_Witness ==
    /\ last.choice = <<"2">>
    /\ report.op = "invalid class name"
    /\ buzzer_class = <<"w">>

BurstEnded == burst.outcome \in {"returned", "raised"}

\* C5: a burst that started the camera has stopped it exactly once when the
\* burst operation ends, however it ends.
C5_CameraStoppedExactlyOnce ==
    (BurstEnded /\ burst.camera_started) =>
        burst.stop_calls = 1 /\ camera = "stopped"

\* C7: run as a program, the collector ends with exit status 0.
C7_ScriptExitsZero == coll_exit # -1 => coll_exit = 0

LoopEnded == cpc \in {"returned", "raised"}

OperationEnded == last.outcome \in {"returned", "raised"}

\* C8 as stated: every choice other than Exit returns the loop to
\* AwaitingChoice once its operation has ended, also when the operation
\* failed, and of the operations only Exit ends the loop.
C8_OnlyExitEndsLoop ==
    /\ (OperationEnded /\ last.choice # <<"6">>) => cpc = "menu"
    /\ (LoopEnded /\ OperationEnded) => last.choice = <<"6">>

\* C8 amended: every choice other than Exit returns the loop to
\* AwaitingChoice when its operation returns; an exception raised by an
\* operation or a prompt leaves main() and ends the loop; the loop ends only
\* by the Exit choice or by such an exception.
C8_LoopEndsByExitOrException ==
    /\ (last.outcome = "returned" /\ last.choice # <<"6">>) => cpc = "menu"
    /\ last.outcome \in {"raised", "interrupted"} => cpc = "raised"
    /\ cpc = "returned" => last = [choice |-> <<"6">>, outcome |-> "returned"]
    /\ cpc = "raised" => last.outcome \in {"raised", "interrupted"}

\* C8 witness: a camera error in the middle of a capture ended the loop
C8_Witness ==
    /\ cpc = "raised"
    /\ last.choice = <<"1">>
    /\ burst.filenames # <<>>
    /\ camera = "stopped"

\* the images of the burst are in <data_dir>/C_F under the name
\* C + F + capture name, and none is left in the working directory
AllMoved ==
    \A i \in DOMAIN burst.filenames :
        /\ <<burst.filenames[i]>> \notin files
        /\ Append(ClassFolder(burst.cls_name, burst.flag),
                  burst.cls_name \o burst.flag \o burst.filenames[i]) \in files

RECURSIVE SumCounts(_)
SumCounts(rows) ==
    IF rows = {} THEN 0
    ELSE LET r == CHOOSE x \in rows : TRUE
         IN  r.count + SumCounts(rows \ {r})

\* C10: the census marks the folder of every finished burst as dangerous
\* exactly when the burst's flag was dang, and its total is the sum of the
\* counts of its rows.
C10_CensusMarksByFlag ==
    report.op = "census" =>
        /\ report.total = SumCounts(report.rows)
        /\ \A b \in log : \A f \in b.written : \A r \in report.rows :
              (Parent(f) = Append(Resolve(DATA_DIR), r.folder)) =>
                  (r.marker = "dangerous" <=> b.cls = b.flagged)

====
